---- MODULE Spec2Model ----
(***************************************************************************)
(* Model of the election and account routes of the e-ballot backend        *)
(* (routes/elections.js, routes/auth.js, models/Election.js,               *)
(* models/Vote.js).                                                        *)
(*                                                                         *)
(* The store holds the Election, Vote and User collections.  Every         *)
(* HTTP request runs in a request slot; a handler is cut into one action   *)
(* per database round trip (each `await`), so that requests interleave     *)
(* with each other and with the wall clock exactly where the code yields.  *)
(* Synchronous code between two awaits belongs to the action of the await  *)
(* that precedes it.                                                       *)
(***************************************************************************)
EXTENDS Integers, Sequences, FiniteSets, Bags, TLC

VARIABLES
    now,        \* the wall clock read by `new Date()`
    elections,  \* the Election collection: a set of documents
    votes,      \* the Vote collection: a bag of documents
    users,      \* the User collection: a set of documents
    nextOid,    \* the next ObjectId the driver generates
    req         \* the request slots: handler position, locals, response

vars == <<now, elections, votes, users, nextOid, req>>

----------------------------------------------------------------------------
(* Bounds *)

MaxTime == 3    \* the clock and all dates range over 0..MaxTime
MaxOid == 6     \* ObjectIds 1..MaxOid can be generated
MaxUsers == 2   \* authenticated callers 1..MaxUsers
MaxVoters == 3  \* voters 1..MaxVoters of an election that is tallied

Reqs == {"r1", "r2"}    \* request slots (requests in flight)
SeqReqs == {"r1"}       \* the slot a sequential client uses
AdminReqs == {"r2"}     \* the slot of an administrator working alongside
Admins == {1}           \* callers that pass isAdmin
Times == 0 .. MaxTime
Users == 1 .. MaxUsers
Voters == 1 .. MaxVoters

\* An identifier that is not a well-formed ObjectId.
BadId == 0 - 1

----------------------------------------------------------------------------
(* Values *)

NoId == 0
NoDoc == [_id |-> NoId]
NoTime == 0 - 1
NoRes == [status |-> 0]

\* mongoose.Types.ObjectId.isValid
IsValidObjectId(id) == id # BadId

\* String schema option trim: true
Trim(s) == IF s = " " THEN "" ELSE s

\* JavaScript truthiness of a string
Truthy(s) == s # ""

Range(s) == {s[i] : i \in DOMAIN s}

\* The effective status computed by List and Get (and the currentStatus
\* virtual): an if / else-if / else chain on the clock.
CurrentStatus(t, startDate, endDate) ==
    IF t < startDate THEN "upcoming"
    ELSE IF t > endDate THEN "completed"
    ELSE "active"

\* The initial status with the start instant still counted as upcoming.
InitialStatus_StrictStart(t, start, end) ==
    IF t > end THEN "completed"
    ELSE IF t > start THEN "active"
    ELSE "upcoming"

\* The initial status stored by Create.
InitialStatus(t, start, end) ==
    IF t > end THEN "completed"
    ELSE IF t >= start THEN "active"
    ELSE "upcoming"

----------------------------------------------------------------------------
(* Store queries *)

\* Election.findById
FindById(id) ==
    IF \E e \in elections : e._id = id
    THEN CHOOSE e \in elections : e._id = id
    ELSE NoDoc

\* Vote.find({ election })
VotesOf(electionId) ==
    {v \in BagToSet(votes) : v.election = electionId}

\* Vote.findOne({ election, voter }) finds a document
VoteExists(electionId, voter) ==
    \E v \in BagToSet(votes) : v.election = electionId /\ v.voter = voter

\* The Vote collection without its unique index: no insert is rejected.
DuplicateKey_NoIndex(doc) == FALSE

\* voteSchema.index({ election: 1, voter: 1 }, { unique: true }): an insert
\* of a second document with the same key is rejected with E11000.
DuplicateKey(doc) ==
    \E v \in BagToSet(votes) : v.election = doc.election /\ v.voter = doc.voter

\* Number of stored Vote documents matching a set of distinct documents.
RECURSIVE CountDocs(_)
CountDocs(S) ==
    IF S = {} THEN 0
    ELSE LET v == CHOOSE x \in S : TRUE
         IN  CopiesIn(v, votes) + CountDocs(S \ {v})

\* Vote.deleteMany({}): every vote removed.
VotesWithout_All(electionId) == EmptyBag

\* Vote.deleteMany({ election })
VotesWithout(electionId) ==
    LET keep == {v \in BagToSet(votes) : v.election # electionId}
    IN  [v \in keep |-> votes[v]]

\* Election identifiers a client sends: those of the stored elections, a
\* well-formed one that no election has, and a malformed one.
ElectionIdInputs == {e._id : e \in elections} \cup {nextOid, BadId}

\* Candidate identifiers a client sends: those of the candidates of all
\* stored elections, a well-formed one no candidate has, and a malformed one.
CandidateIdInputs ==
    UNION {{e.candidates[i]._id : i \in DOMAIN e.candidates} : e \in elections}
    \cup {nextOid, BadId}

----------------------------------------------------------------------------
(* Request slots *)

IdleReq ==
    [op |-> "none", pc |-> "idle", electionId |-> NoId, candidateId |-> NoId,
     user |-> NoId, election |-> NoDoc, now |-> NoTime,
     list |-> <<>>, updateData |-> NoDoc, deletedCount |-> 0,
     email |-> "", voterID |-> "", password |-> "", age |-> 0,
     account |-> NoDoc, env |-> "", res |-> NoRes]

\* A slot takes a new request when it is idle.
Free(p) == req[p].pc = "idle"

\* No response is waiting to be delivered.
NoneDone == \A q \in Reqs : req[q].pc # "done"

\* res.status(s).json(body): the response ends the request.
Respond(p, r, body) ==
    req' = [req EXCEPT ![p] = [r EXCEPT !.pc = "done", !.res = body]]

Goto(p, r, label) ==
    req' = [req EXCEPT ![p] = [r EXCEPT !.pc = label]]

Msg(status, message) == [status |-> status, message |-> message]

----------------------------------------------------------------------------
(* Initial state: no elections, no votes, the seeded administrators *)

\* bcrypt.hash(password, 10), as far as comparisons can tell
Hash(password) == <<"hash", password>>

\* The administrators the seed script inserts; their identifiers were
\* generated before the service started.
SeededAdmins ==
    {[_id |-> MaxOid + 1, fullName |-> "Admin User", email |-> "admin@example.com",
      voterID |-> "ADMIN001", password |-> Hash("admin123"), age |-> 35,
      role |-> "admin", isVerified |-> TRUE, isActive |-> TRUE],
     [_id |-> MaxOid + 2, fullName |-> "Second Admin", email |-> "admin2@example.com",
      voterID |-> "ADMIN002", password |-> Hash("admin456"), age |-> 30,
      role |-> "admin", isVerified |-> TRUE, isActive |-> TRUE]}

Init ==
    /\ now = 0
    /\ elections = {}
    /\ votes = EmptyBag
    /\ users = SeededAdmins
    /\ nextOid = 1
    /\ req = [p \in Reqs |-> IdleReq]

\* The wall clock advances.
Tick ==
    /\ now < MaxTime
    /\ now' = now + 1
    /\ UNCHANGED <<users, elections, votes, nextOid, req>>
----------------------------------------------------------------------------
(* Request bodies *)

GarbageDate == MaxTime + 1          \* a string `new Date()` cannot parse
DateInputs == Times \cup {NoTime, GarbageDate}   \* NoTime: field absent

\* new Date(x).getTime(); NoTime stands for NaN
ParseDate(d) == IF d \in Times THEN d ELSE NoTime

Cand(name, party, bio, id) ==
    [name |-> name, party |-> party, bio |-> bio, _id |-> id]

GoodCand == Cand("x", "x", "x", NoId)

\* Candidate lists a client sends (without identifiers).
CandidateLists ==
    { <<>>,
      <<GoodCand>>,
      <<GoodCand, GoodCand>>,
      <<GoodCand, GoodCand, GoodCand>>,
      <<GoodCand, Cand("", "x", "x", NoId)>>,
      <<GoodCand, Cand(" ", "x", "x", NoId)>>,
      <<Cand("x", "", "x", NoId), GoodCand>> }

\* Well-formed request bodies, and well-formed ones with one or several
\* fields spoiled.
GoodBodies(titles, lists) ==
    [title : titles, description : {"d"},
     startDate : Times, endDate : Times,
     hasCandidates : {TRUE}, candidates : lists]

BaseBody ==
    [title |-> "t1", description |-> "d", startDate |-> 1, endDate |-> 2,
     hasCandidates |-> TRUE, candidates |-> <<GoodCand, GoodCand>>]

SpoiledBodies ==
    {[BaseBody EXCEPT !.title = t] : t \in {"", " "}}
    \cup {[BaseBody EXCEPT !.description = ""]}
    \cup {[BaseBody EXCEPT !.startDate = d] : d \in {NoTime, GarbageDate}}
    \cup {[BaseBody EXCEPT !.endDate = d] : d \in {NoTime, GarbageDate}}
    \cup {[BaseBody EXCEPT !.hasCandidates = FALSE]}
    \cup {[BaseBody EXCEPT !.candidates = c] : c \in CandidateLists}
    \cup {[BaseBody EXCEPT !.title = "", !.endDate = 1, !.candidates = <<GoodCand>>],
          [BaseBody EXCEPT !.endDate = 1, !.candidates = <<GoodCand>>],
          [BaseBody EXCEPT !.title = " ",
                           !.candidates = <<GoodCand, Cand(" ", "x", "x", NoId)>>]}

\* Bodies sent to Create
CreateBodies ==
    GoodBodies({"t1"}, {<<GoodCand, GoodCand>>, <<GoodCand, GoodCand, GoodCand>>})
    \cup SpoiledBodies

\* Bodies sent to Update: with and without a candidate list
UpdateBodies ==
    GoodBodies({"t2"}, {<<GoodCand, GoodCand>>})
    \cup {[b EXCEPT !.hasCandidates = FALSE, !.candidates = <<>>] :
            b \in GoodBodies({"t2"}, {<<GoodCand, GoodCand>>})}
    \cup {[BaseBody EXCEPT !.startDate = GarbageDate],
          [BaseBody EXCEPT !.candidates = <<GoodCand>>],
          [BaseBody EXCEPT !.candidates = <<GoodCand, Cand("", "x", "x", NoId)>>],
          [BaseBody EXCEPT !.candidates = <<GoodCand, Cand(" ", "x", "x", NoId)>>]}

\* `if (!candidate.name || !candidate.party || !candidate.bio)` finds no
\* offender in the list
EachCandidateComplete(cands) ==
    \A i \in DOMAIN cands :
        Truthy(cands[i].name) /\ Truthy(cands[i].party) /\ Truthy(cands[i].bio)

\* A single candidate accepted.
EnoughCandidates_One(cands) == Len(cands) >= 1

\* `!Array.isArray(candidates) || candidates.length < 2` is false
EnoughCandidates(cands) == Len(cands) >= 2

\* Paths rejected by the schema's `required` validators at save time; the
\* trim setter runs before validation.
SchemaErrors(doc) ==
    (IF Trim(doc.title) = "" THEN {"title"} ELSE {})
    \cup (IF doc.description = "" THEN {"description"} ELSE {})
    \cup {"candidates.name" : i \in
            {j \in DOMAIN doc.candidates : Trim(doc.candidates[j].name) = ""}}
    \cup {"candidates.party" : i \in
            {j \in DOMAIN doc.candidates : Trim(doc.candidates[j].party) = ""}}
    \cup {"candidates.bio" : i \in
            {j \in DOMAIN doc.candidates : doc.candidates[j].bio = ""}}

\* The candidate subdocuments as stored: setters applied, identifiers
\* generated from `first` on where absent.
StoredCandidates(cands, first) ==
    [i \in DOMAIN cands |->
        Cand(Trim(cands[i].name), Trim(cands[i].party), cands[i].bio,
             IF cands[i]._id = NoId THEN first + i - 1 ELSE cands[i]._id)]

----------------------------------------------------------------------------
(* POST /  -- create election (admin) *)

CreateElection(p, user, body) ==
    /\ Free(p)
    /\ LET r == [IdleReq EXCEPT !.op = "create", !.user = user]
           start == ParseDate(body.startDate)
           end == ParseDate(body.endDate)
           status == InitialStatus(now, start, end)
           doc == [_id |-> nextOid,
                   title |-> Trim(body.title),
                   description |-> body.description,
                   startDate |-> start,
                   endDate |-> end,
                   status |-> status,
                   candidates |-> StoredCandidates(body.candidates, nextOid + 1),
                   createdBy |-> user]
       IN
       IF \/ ~Truthy(body.title) \/ ~Truthy(body.description)
          \/ body.startDate = NoTime \/ body.endDate = NoTime
          \/ ~body.hasCandidates
       THEN /\ Respond(p, r, [status |-> 400, message |-> "Missing required fields",
                              required |-> {"title", "description", "startDate",
                                            "endDate", "candidates"}])
            /\ UNCHANGED <<users, now, elections, votes, nextOid>>
       ELSE IF ~EnoughCandidates(body.candidates)
       THEN /\ Respond(p, r, Msg(400, "At least two candidates are required"))
            /\ UNCHANGED <<users, now, elections, votes, nextOid>>
       ELSE IF ~EachCandidateComplete(body.candidates)
       THEN /\ Respond(p, r, Msg(400, "Each candidate must have name, party, and bio"))
            /\ UNCHANGED <<users, now, elections, votes, nextOid>>
       ELSE IF start = NoTime \/ end = NoTime
       THEN /\ Respond(p, r, Msg(400, "Invalid date format"))
            /\ UNCHANGED <<users, now, elections, votes, nextOid>>
       ELSE IF end <= start
       THEN /\ Respond(p, r, Msg(400, "End date must be after start date"))
            /\ UNCHANGED <<users, now, elections, votes, nextOid>>
       ELSE IF SchemaErrors(doc) # {}
       THEN /\ Respond(p, r, [status |-> 400, message |-> "Validation error",
                              errors |-> SchemaErrors(doc)])
            /\ UNCHANGED <<users, now, elections, votes, nextOid>>
       ELSE /\ nextOid + Len(body.candidates) <= MaxOid
            /\ elections' = elections \cup {doc}
            /\ nextOid' = nextOid + 1 + Len(body.candidates)
            /\ Respond(p, r, [status |-> 201, election |-> doc])
            /\ UNCHANGED <<users, now, votes>>

----------------------------------------------------------------------------
(* POST /:id/vote  -- cast a vote *)

\* isValid checks, then `await Election.findById(electionId)`
VoteFindElection(p, user, electionId, candidateId) ==
    /\ Free(p)
    /\ LET r == [IdleReq EXCEPT !.op = "vote", !.user = user,
                                !.electionId = electionId,
                                !.candidateId = candidateId]
           election == FindById(electionId)
       IN
       IF ~IsValidObjectId(electionId)
       THEN Respond(p, r, Msg(400, "Invalid election ID format"))
       ELSE IF ~IsValidObjectId(candidateId)
       THEN Respond(p, r, Msg(400, "Invalid candidate ID format"))
       ELSE IF election = NoDoc
       THEN Respond(p, r, Msg(404, "Election not found"))
       ELSE Goto(p, [r EXCEPT !.election = election], "vote_check")
    /\ UNCHANGED <<users, now, elections, votes, nextOid>>

\* The candidate looked up among the candidates of every stored election.
HasCandidate_AnyElection(election, candidateId) ==
    \E e \in elections : \E i \in DOMAIN e.candidates :
        e.candidates[i]._id = candidateId

\* election.candidates.find(c => c._id.toString() === candidateId) finds one
HasCandidate(election, candidateId) ==
    \E i \in DOMAIN election.candidates :
        election.candidates[i]._id = candidateId

\* The election judged by its stored status field.
IsActiveAt_StoredStatus(t, election) == election.status = "active"

\* `now < election.startDate || now > election.endDate` is false
IsActiveAt(t, election) ==
    ~(t < election.startDate \/ t > election.endDate)

\* After findById resumes: the clock is read, the election and the
\* candidate are checked, and Vote.findOne is issued.
VoteCheck(p) ==
    /\ req[p].pc = "vote_check"
    /\ LET r == [req[p] EXCEPT !.now = now]
       IN
       IF ~IsActiveAt(now, r.election)
       THEN Respond(p, r, Msg(400, "This election is not currently active"))
       ELSE IF ~HasCandidate(r.election, r.candidateId)
       THEN Respond(p, r, Msg(400, "Invalid candidate for this election"))
       ELSE Goto(p, r, "vote_findOne")
    /\ UNCHANGED <<users, now, elections, votes, nextOid>>

\* `await Vote.findOne({ election, voter })` and the existingVote check
VoteFindOne(p) ==
    /\ req[p].pc = "vote_findOne"
    /\ IF VoteExists(req[p].electionId, req[p].user)
       THEN Respond(p, req[p], Msg(400, "You have already voted in this election"))
       ELSE Goto(p, req[p], "vote_save")
    /\ UNCHANGED <<users, now, elections, votes, nextOid>>

\* `await vote.save()`: the insert is subject to the unique index; a
\* rejected insert throws, and the catch block answers 500 (the error is
\* not a CastError).
VoteSave(p) ==
    /\ req[p].pc = "vote_save"
    /\ LET vote == [election |-> req[p].electionId,
                    candidate |-> req[p].candidateId,
                    voter |-> req[p].user]
       IN
       IF DuplicateKey(vote)
       THEN /\ Respond(p, req[p], Msg(500, "Server error recording vote"))
            /\ UNCHANGED votes
       ELSE /\ votes' = votes (+) SetToBag({vote})
            /\ Respond(p, req[p], Msg(201, "Vote recorded successfully"))
    /\ UNCHANGED <<users, now, elections, nextOid>>
----------------------------------------------------------------------------
(* GET /:id/vote-status  -- vote status of the caller *)

\* isValid check, then `await Election.findById(electionId)`
VoteStatusFindElection(p, user, electionId) ==
    /\ Free(p)
    /\ LET r == [IdleReq EXCEPT !.op = "voteStatus", !.user = user,
                                !.electionId = electionId]
           election == FindById(electionId)
       IN
       IF ~IsValidObjectId(electionId)
       THEN Respond(p, r, Msg(400, "Invalid election ID format"))
       ELSE IF election = NoDoc
       THEN Respond(p, r, Msg(404, "Election not found"))
       ELSE Goto(p, [r EXCEPT !.election = election], "status_findOne")
    /\ UNCHANGED <<users, now, elections, votes, nextOid>>

\* Vote.findOne({ election: electionId, voter: userId }): the documents it
\* can return
OwnVotes(electionId, voter) ==
    {v \in VotesOf(electionId) : v.voter = voter}

\* The response for a vote found: the candidate is looked up in the
\* election read before, and its details are added if it is there.  (Vote
\* documents carry no identifier of their own here, so voteId is left out.)
VoteStatusOf(election, vote) ==
    LET found == {i \in DOMAIN election.candidates :
                     election.candidates[i]._id = vote.candidate}
    IN  IF found = {} THEN [status |-> 200, hasVoted |-> TRUE]
        ELSE LET candidate == election.candidates[CHOOSE i \in found :
                                                     \A j \in found : i <= j]
             IN  [status |-> 200, hasVoted |-> TRUE,
                  candidateId |-> candidate._id,
                  candidateName |-> candidate.name,
                  candidateParty |-> candidate.party]

\* `await Vote.findOne(...)` and the response
VoteStatusFindOne(p) ==
    /\ req[p].pc = "status_findOne"
    /\ LET found == OwnVotes(req[p].electionId, req[p].user)
       IN  IF found = {}
           THEN Respond(p, req[p], [status |-> 200, hasVoted |-> FALSE])
           ELSE \E vote \in found :
                   Respond(p, req[p], VoteStatusOf(req[p].election, vote))
    /\ UNCHANGED <<users, now, elections, votes, nextOid>>

----------------------------------------------------------------------------
(* DELETE /:id  -- delete election (admin) *)

\* The window check with strict comparisons.
NowInWindow_Strict(t, election) ==
    t > election.startDate /\ t < election.endDate

\* `now >= election.startDate && now <= election.endDate`
NowInWindow(t, election) ==
    t >= election.startDate /\ t <= election.endDate

\* The completed-election check left out.
NowPastEnd_Never(t, election) == FALSE

\* `now > election.endDate`
NowPastEnd(t, election) == t > election.endDate

\* isValid check, then `await Election.findById(electionId)`
DeleteFindElection(p, user, electionId) ==
    /\ Free(p)
    /\ LET r == [IdleReq EXCEPT !.op = "delete", !.user = user,
                                !.electionId = electionId]
           election == FindById(electionId)
       IN
       IF ~IsValidObjectId(electionId)
       THEN Respond(p, r, Msg(400, "Invalid election ID format"))
       ELSE IF election = NoDoc
       THEN Respond(p, r, Msg(404, "Election not found"))
       ELSE Goto(p, [r EXCEPT !.election = election], "delete_check")
    /\ UNCHANGED <<users, now, elections, votes, nextOid>>

\* After findById resumes: the clock is read and the two state checks run;
\* then Vote.deleteMany is issued.
DeleteCheck(p) ==
    /\ req[p].pc = "delete_check"
    /\ LET r == [req[p] EXCEPT !.now = now]
       IN
       IF NowInWindow(now, r.election)
       THEN Respond(p, r, [status |-> 400,
                           message |-> "Cannot delete an active election",
                           startDate |-> r.election.startDate,
                           endDate |-> r.election.endDate])
       ELSE IF NowPastEnd(now, r.election)
       THEN Respond(p, r, [status |-> 400,
                           message |-> "Cannot delete a completed election",
                           endDate |-> r.election.endDate])
       ELSE Goto(p, r, "delete_votes")
    /\ UNCHANGED <<users, now, elections, votes, nextOid>>

\* `await Vote.deleteMany({ election: electionId })`
DeleteVotes(p) ==
    /\ req[p].pc = "delete_votes"
    /\ votes' = VotesWithout(req[p].electionId)
    /\ Goto(p, [req[p] EXCEPT !.deletedCount = CountDocs(VotesOf(req[p].electionId))],
            "delete_election")
    /\ UNCHANGED <<users, now, elections, nextOid>>

\* `await Election.findByIdAndDelete(electionId)` and the success response
DeleteElection(p) ==
    /\ req[p].pc = "delete_election"
    /\ elections' = {e \in elections : e._id # req[p].electionId}
    /\ Respond(p, req[p], [status |-> 200,
                           message |-> "Election deleted successfully",
                           deletedElectionId |-> req[p].electionId,
                           deletedVotesCount |-> req[p].deletedCount])
    /\ UNCHANGED <<users, now, votes, nextOid>>
----------------------------------------------------------------------------
(* GET /:id/results  -- compute results *)

\* isValid check, then `await Election.findById(electionId)`
ResultsFindElection(p, electionId) ==
    /\ Free(p)
    /\ LET r == [IdleReq EXCEPT !.op = "results", !.electionId = electionId]
           election == FindById(electionId)
       IN
       IF ~IsValidObjectId(electionId)
       THEN Respond(p, r, Msg(400, "Invalid election ID format"))
       ELSE IF election = NoDoc
       THEN Respond(p, r, Msg(404, "Election not found"))
       ELSE Goto(p, [r EXCEPT !.election = election], "results_check")
    /\ UNCHANGED <<users, now, elections, votes, nextOid>>

\* The end date compared with >= instead of >.
IsCompleted_AtEnd(t, election) == t >= election.endDate

\* `const isCompleted = now > election.endDate`
IsCompleted(t, election) == t > election.endDate

\* After findById resumes: the clock is read and compared with endDate;
\* then Vote.find is issued.
ResultsCheck(p) ==
    /\ req[p].pc = "results_check"
    /\ LET r == [req[p] EXCEPT !.now = now]
       IN
       IF ~IsCompleted(now, r.election)
       THEN Respond(p, r, [status |-> 403,
                           message |-> "Results are not available until the election is complete",
                           endDate |-> r.election.endDate])
       ELSE Goto(p, r, "results_tally")
    /\ UNCHANGED <<users, now, elections, votes, nextOid>>

\* The orders in which `Vote.find({ election })` can return the votes of an
\* election (no sort is asked for).
FindOrders(electionId) ==
    {found \in [1 .. CountDocs(VotesOf(electionId)) -> VotesOf(electionId)] :
        \A v \in VotesOf(electionId) :
            Cardinality({i \in DOMAIN found : found[i] = v}) = CopiesIn(v, votes)}

\* The counter declared once outside the loop: every vote stores the
\* running count of all votes under its candidate.
RECURSIVE VoteMap_SharedCounter(_)
VoteMap_SharedCounter(found) ==
    IF found = <<>> THEN <<>>
    ELSE LET m == VoteMap_SharedCounter(SubSeq(found, 1, Len(found) - 1))
             key == found[Len(found)].candidate
         IN  [k \in DOMAIN m \cup {key} |-> IF k = key THEN Len(found) ELSE m[k]]

\* votes.forEach(vote => voteMap.set(key, (voteMap.get(key) || 0) + 1))
RECURSIVE VoteMap(_)
VoteMap(found) ==
    IF found = <<>> THEN <<>>
    ELSE LET m == VoteMap(SubSeq(found, 1, Len(found) - 1))
             key == found[Len(found)].candidate
         IN  [k \in DOMAIN m \cup {key} |->
                IF k = key THEN (IF k \in DOMAIN m THEN m[k] ELSE 0) + 1
                ELSE m[k]]

\* voteMap.get(candidate._id.toString()) || 0
VoteMapGet(voteMap, candidateId) ==
    IF candidateId \in DOMAIN voteMap THEN voteMap[candidateId] ELSE 0

----------------------------------------------------------------------------
(* JavaScript numbers: IEEE 754 binary64, round to nearest, ties to even *)

\* Significant bits of a binary64 number.
Precision == 53

\* A number is zero, NaN, an infinity, or bits * 2^exp with `bits` a
\* sequence of Precision binary digits, most significant first, starting
\* with 1.  Only non-negative numbers occur.
FZero == [kind |-> "zero", bits |-> <<>>, exp |-> 0]
FNaN == [kind |-> "nan", bits |-> <<>>, exp |-> 0]
FInfinity == [kind |-> "infinity", bits |-> <<>>, exp |-> 0]

Zeros(n) == [i \in 1 .. n |-> 0]

Reverse(s) == [i \in 1 .. Len(s) |-> s[Len(s) + 1 - i]]

\* The binary digits of a natural number, most significant first.
RECURSIVE ToBits(_)
ToBits(n) == IF n = 0 THEN <<>> ELSE Append(ToBits(n \div 2), n % 2)

\* bits * k for a small natural k, on digits least significant first.
RECURSIVE MulDigits(_, _, _)
MulDigits(digits, k, carry) ==
    IF digits = <<>> THEN Reverse(ToBits(carry))
    ELSE <<(Head(digits) * k + carry) % 2>>
            \o MulDigits(Tail(digits), k, (Head(digits) * k + carry) \div 2)

MulBits(bits, k) == Reverse(MulDigits(Reverse(bits), k, 0))

\* bits + 1, on digits least significant first.
RECURSIVE IncDigits(_)
IncDigits(digits) ==
    IF digits = <<>> THEN <<1>>
    ELSE IF Head(digits) = 0 THEN <<1>> \o Tail(digits)
    ELSE <<0>> \o IncDigits(Tail(digits))

\* The binary64 number nearest to bits * 2^exp (ties to even), for a
\* non-empty digit sequence starting with 1.
Round(bits, exp) ==
    IF Len(bits) <= Precision
    THEN [kind |-> "finite",
          bits |-> bits \o Zeros(Precision - Len(bits)),
          exp |-> exp - (Precision - Len(bits))]
    ELSE LET keep == SubSeq(bits, 1, Precision)
             rest == SubSeq(bits, Precision + 1, Len(bits))
             sticky == \E i \in 2 .. Len(rest) : rest[i] = 1
             up == rest[1] = 1 /\ (sticky \/ keep[Precision] = 1)
             kept == IF up THEN Reverse(IncDigits(Reverse(keep))) ELSE keep
             e == exp + Len(rest)
         IN  IF Len(kept) > Precision
             THEN [kind |-> "finite", bits |-> SubSeq(kept, 1, Precision), exp |-> e + 1]
             ELSE [kind |-> "finite", bits |-> kept, exp |-> e]

\* Long division r / t continued until the quotient has Precision + 1
\* significant digits; `exp` is the weight of the last digit produced.
RECURSIVE Quotient(_, _, _, _)
Quotient(r, t, acc, exp) ==
    IF Len(acc) = Precision + 1 THEN [bits |-> acc, exp |-> exp, rem |-> r]
    ELSE LET b == IF 2 * r >= t THEN 1 ELSE 0
         IN  IF acc = <<>> /\ b = 0
             THEN Quotient(2 * r, t, acc, exp - 1)
             ELSE Quotient(2 * r - b * t, t, Append(acc, b), exp - 1)

\* n / t for naturals n, t (both exact as binary64)
FDiv(n, t) ==
    IF t = 0 THEN (IF n = 0 THEN FNaN ELSE FInfinity)
    ELSE IF n = 0 THEN FZero
    ELSE LET q == Quotient(n % t, t, ToBits(n \div t), 0)
         IN  Round(q.bits \o <<IF q.rem > 0 THEN 1 ELSE 0>>, q.exp - 1)

\* x * k for a small natural k > 0 (exact as binary64)
FMul(x, k) ==
    IF x.kind = "finite" THEN Round(MulBits(x.bits, k), x.exp) ELSE x

\* The guard `totalVotes > 0` left out.
Percentage_Unguarded(n, totalVotes) == FMul(FDiv(n, totalVotes), 100)

\* totalVotes > 0 ? (votes / totalVotes) * 100 : 0
Percentage(n, totalVotes) ==
    IF totalVotes > 0 THEN FMul(FDiv(n, totalVotes), 100) ELSE FZero

\* The candidate details copied into a result row: { id, name, party, bio }
RowCandidate(c) ==
    [id |-> c._id, name |-> c.name, party |-> c.party, bio |-> c.bio]

\* Rows built from the vote map: only candidates that received a vote.
ResultRows_VotedOnly(election, found) ==
    LET voteMap == VoteMap(found)
        HasVotes(c) == VoteMapGet(voteMap, c._id) > 0
        voted == SelectSeq(election.candidates, HasVotes)
    IN  [i \in DOMAIN voted |->
            LET n == VoteMapGet(voteMap, voted[i]._id)
            IN  [candidate |-> RowCandidate(voted[i]),
                 votes |-> n,
                 percentage |-> Percentage(n, Len(found))]]

\* election.candidates.map(...): one row per embedded candidate
ResultRows(election, found) ==
    LET voteMap == VoteMap(found)
    IN  [i \in DOMAIN election.candidates |->
            LET n == VoteMapGet(voteMap, election.candidates[i]._id)
            IN  [candidate |-> RowCandidate(election.candidates[i]),
                 votes |-> n,
                 percentage |-> Percentage(n, Len(found))]]

\* results.sort((a, b) => b.votes - a.votes): a stable sort, descending
RECURSIVE SortByVotes(_)
SortByVotes(rows) ==
    IF rows = <<>> THEN <<>>
    ELSE LET n == Len(rows)
             s == SortByVotes(SubSeq(rows, 1, n - 1))
             k == Cardinality({i \in DOMAIN s : s[i].votes >= rows[n].votes})
         IN  SubSeq(s, 1, k) \o <<rows[n]>> \o SubSeq(s, k + 1, Len(s))

\* Math.max(...results.map(r => r.votes)); below every count for no rows
MaxVotes(rows) ==
    IF rows = <<>> THEN 0 - 1
    ELSE CHOOSE m \in {rows[i].votes : i \in DOMAIN rows} :
            \A i \in DOMAIN rows : rows[i].votes <= m

\* Only the first row of the sorted results taken as the winner.
Winners_FirstRow(rows) ==
    IF rows = <<>> THEN <<>> ELSE <<rows[1].candidate>>

\* results.filter(r => r.votes === maxVotes).map(r => r.candidate)
Winners(rows) ==
    LET IsMax(r) == r.votes = MaxVotes(rows)
    IN  [i \in DOMAIN SelectSeq(rows, IsMax) |->
            SelectSeq(rows, IsMax)[i].candidate]

\* `await Vote.find({ election: electionId })`, the tally and the response
ResultsTally(p) ==
    /\ req[p].pc = "results_tally"
    /\ \E found \in FindOrders(req[p].electionId) :
          LET election == req[p].election
              results == SortByVotes(ResultRows(election, found))
              winners == Winners(results)
          IN  Respond(p, [req[p] EXCEPT !.list = found],
                      [status |-> 200,
                       electionId |-> election._id,
                       title |-> election.title,
                       description |-> election.description,
                       totalVotes |-> Len(found),
                       results |-> results,
                       winners |-> winners,
                       isTie |-> Len(winners) > 1,
                       endDate |-> election.endDate,
                       lastUpdated |-> now])
    /\ UNCHANGED <<users, now, elections, votes, nextOid>>

----------------------------------------------------------------------------
(* GET /:id and GET /  -- read elections *)

\* isValid check, then `await Election.findById(electionId)`
GetFindElection(p, electionId) ==
    /\ Free(p)
    /\ LET r == [IdleReq EXCEPT !.op = "get", !.electionId = electionId]
           election == FindById(electionId)
       IN
       IF ~IsValidObjectId(electionId)
       THEN Respond(p, r, Msg(400, "Invalid election ID format"))
       ELSE IF election = NoDoc
       THEN Respond(p, r, Msg(404, "Election not found"))
       ELSE Goto(p, [r EXCEPT !.election = election], "get_status")
    /\ UNCHANGED <<users, now, elections, votes, nextOid>>

\* The election returned with its stored status.
WithStatus_Stored(election, t) == election

\* { ...election.toObject(), status }
WithStatus(election, t) ==
    [election EXCEPT !.status = CurrentStatus(t, election.startDate, election.endDate)]

\* After findById resumes: the status is derived and the election returned.
GetStatus(p) ==
    /\ req[p].pc = "get_status"
    /\ LET r == [req[p] EXCEPT !.now = now]
       IN  Respond(p, r, [status |-> 200, election |-> WithStatus(r.election, now)])
    /\ UNCHANGED <<users, now, elections, votes, nextOid>>

\* The orders `.sort({ startDate: -1 })` can return the collection in.
SortedByStartDesc ==
    {s \in [1 .. Cardinality(elections) -> elections] :
        /\ \A i, j \in DOMAIN s : i # j => s[i] # s[j]
        /\ \A i, j \in DOMAIN s : i < j => s[i].startDate >= s[j].startDate}

\* .select('title description startDate endDate status candidates')
Select(e) ==
    [_id |-> e._id, title |-> e.title, description |-> e.description,
     startDate |-> e.startDate, endDate |-> e.endDate, status |-> e.status,
     candidates |-> e.candidates]

\* `await Election.find().select(...).sort({ startDate: -1 })`
ListFind(p) ==
    /\ Free(p)
    /\ \E s \in SortedByStartDesc :
          Goto(p, [IdleReq EXCEPT !.op = "list",
                                  !.list = [i \in DOMAIN s |-> Select(s[i])]],
               "list_status")
    /\ UNCHANGED <<users, now, elections, votes, nextOid>>

\* elections.map(election => ({ ...election.toObject(), status }))
ListStatus(p) ==
    /\ req[p].pc = "list_status"
    /\ LET r == [req[p] EXCEPT !.now = now]
       IN  Respond(p, r, [status |-> 200,
                          elections |-> [i \in DOMAIN r.list |-> WithStatus(r.list[i], now)]])
    /\ UNCHANGED <<users, now, elections, votes, nextOid>>
----------------------------------------------------------------------------
(* PUT /:id  -- update election (admin) *)

\* isValid check, then `await Election.findById(electionId)`
UpdateFindElection(p, user, electionId) ==
    /\ Free(p)
    /\ LET r == [IdleReq EXCEPT !.op = "update", !.user = user,
                                !.electionId = electionId]
           election == FindById(electionId)
       IN
       IF ~IsValidObjectId(electionId)
       THEN Respond(p, r, Msg(400, "Invalid election ID format"))
       ELSE IF election = NoDoc
       THEN Respond(p, r, Msg(404, "Election not found"))
       ELSE Goto(p, [r EXCEPT !.election = election], "update_check")
    /\ UNCHANGED <<users, now, elections, votes, nextOid>>

\* How the client fills candidate._id in an update: not at all, with the
\* identifiers the election has now (by position), or with one identifier
\* for every candidate.
IdPatterns == {"absent", "resupplied", "same"}

ClientCandidates(cands, pattern, election) ==
    [i \in DOMAIN cands |->
        [cands[i] EXCEPT !._id =
            IF pattern = "resupplied" /\ i \in DOMAIN election.candidates
                THEN election.candidates[i]._id
            ELSE IF pattern = "same" /\ election.candidates # <<>>
                THEN election.candidates[1]._id
            ELSE NoId]]

\* Number of candidates that get `new mongoose.Types.ObjectId()`
FreshCount(cands) == Cardinality({i \in DOMAIN cands : cands[i]._id = NoId})

\* candidates.map(c => ({ ..., _id: c._id || new ObjectId() })): the i-th
\* candidate without identifier gets the next generated one.
AssignIds(cands, first) ==
    [i \in DOMAIN cands |->
        [cands[i] EXCEPT !._id =
            IF cands[i]._id # NoId THEN cands[i]._id
            ELSE first + Cardinality({j \in 1 .. (i - 1) : cands[j]._id = NoId})]]

\* After findById resumes: the clock is read, the state checks and the
\* validation run, updateData is built, and findByIdAndUpdate is issued.
UpdateCheck(p, body, pattern) ==
    /\ req[p].pc = "update_check"
    /\ LET r == [req[p] EXCEPT !.now = now]
           start == ParseDate(body.startDate)
           end == ParseDate(body.endDate)
           candidates == ClientCandidates(body.candidates, pattern, r.election)
           updateData ==
               [title |-> body.title,
                description |-> body.description,
                startDate |-> start,
                endDate |-> end,
                hasCandidates |-> body.hasCandidates,
                candidates |-> IF body.hasCandidates
                               THEN AssignIds(candidates, nextOid) ELSE <<>>]
       IN
       IF NowPastEnd(now, r.election)
       THEN /\ Respond(p, r, [status |-> 400,
                              message |-> "Cannot update a completed election",
                              endDate |-> r.election.endDate])
            /\ UNCHANGED nextOid
       ELSE IF NowInWindow(now, r.election)
       THEN /\ Respond(p, r, [status |-> 400,
                              message |-> "Cannot update an active election",
                              startDate |-> r.election.startDate,
                              endDate |-> r.election.endDate])
            /\ UNCHANGED nextOid
       ELSE IF start = NoTime \/ end = NoTime
       THEN /\ Respond(p, r, Msg(400, "Invalid date format"))
            /\ UNCHANGED nextOid
       ELSE IF end <= start
       THEN /\ Respond(p, r, Msg(400, "End date must be after start date"))
            /\ UNCHANGED nextOid
       ELSE IF body.hasCandidates /\ ~EnoughCandidates(candidates)
       THEN /\ Respond(p, r, Msg(400, "At least two candidates are required"))
            /\ UNCHANGED nextOid
       ELSE IF body.hasCandidates /\ ~EachCandidateComplete(candidates)
       THEN /\ Respond(p, r, Msg(400, "Each candidate must have name, party, and bio"))
            /\ UNCHANGED nextOid
       ELSE IF body.hasCandidates
       THEN /\ nextOid + FreshCount(candidates) - 1 <= MaxOid
            /\ nextOid' = nextOid + FreshCount(candidates)
            /\ Goto(p, [r EXCEPT !.updateData = updateData], "update_write")
       ELSE /\ Goto(p, [r EXCEPT !.updateData = updateData], "update_write")
            /\ UNCHANGED nextOid
    /\ UNCHANGED <<users, now, elections, votes>>

\* The update with the candidate list always part of updateData.
ApplyUpdate_AlwaysCandidates(doc, updateData) ==
    [doc EXCEPT !.title = Trim(updateData.title),
                !.description = updateData.description,
                !.startDate = updateData.startDate,
                !.endDate = updateData.endDate,
                !.candidates = StoredCandidates(updateData.candidates, NoId)]

\* The document after `{ $set: updateData }`: the update is cast through the
\* schema (setters run), validators do not run.
ApplyUpdate(doc, updateData) ==
    [doc EXCEPT !.title = Trim(updateData.title),
                !.description = updateData.description,
                !.startDate = updateData.startDate,
                !.endDate = updateData.endDate,
                !.candidates = IF updateData.hasCandidates
                               THEN StoredCandidates(updateData.candidates, NoId)
                               ELSE doc.candidates]

\* `await Election.findByIdAndUpdate(electionId, { $set }, { new: true })`;
\* when the election is gone it returns null and reading
\* updatedElection._id throws, which the catch block answers with 500.
UpdateWrite(p) ==
    /\ req[p].pc = "update_write"
    /\ LET doc == FindById(req[p].electionId)
           updated == ApplyUpdate(doc, req[p].updateData)
       IN
       IF doc = NoDoc
       THEN /\ Respond(p, req[p], Msg(500, "Server error updating election"))
            /\ UNCHANGED elections
       ELSE /\ elections' = (elections \ {doc}) \cup {updated}
            /\ Respond(p, req[p], [status |-> 200, election |-> updated])
    /\ UNCHANGED <<users, now, votes, nextOid>>

----------------------------------------------------------------------------
(* Accounts: the User collection and its callers *)

Emails == {"a@example.com", "b@example.com"}
VoterIDs == {"VOT1", "VOT2"}
Passwords == {"pw1", "pw2", "admin123"}
Ages == {25, 17}
Envs == {"production", "development"}     \* process.env.NODE_ENV

\* Request bodies of Register and of Update profile
RegisterBodies ==
    [fullName : {"n"}, email : Emails, voterID : VoterIDs,
     password : {"pw1"}, age : Ages]

ProfileBodies ==
    [fullName : {"m"}, email : Emails, voterID : VoterIDs, age : Ages]

\* user.comparePassword(candidate): bcrypt.compare with the stored hash
ComparePassword(user, candidate) == user.password = Hash(candidate)

\* Paths the User schema rejects: age below 18 or above 120.
UserSchemaErrors(doc) ==
    IF doc.age < 18 \/ doc.age > 120 THEN {"age"} ELSE {}

\* The User collection's unique indexes on email and on voterID: an insert
\* or update that gives a second document the same email or the same
\* voterID is rejected with E11000.
UserDuplicateKey(doc) ==
    \E u \in users :
        u._id # doc._id /\ (u.email = doc.email \/ u.voterID = doc.voterID)

\* Callers that pass authenticateToken: a user obtains a token by logging in
\* once the account exists, and the token stays valid whatever happens to
\* the account afterwards.
Callers == {u._id : u \in users}

\* isAdmin: the token carries the role admin
IsAdmin(caller) == \E u \in users : u._id = caller /\ u.role = "admin"

\* User.findById
FindUser(id) ==
    IF \E u \in users : u._id = id
    THEN CHOOSE u \in users : u._id = id
    ELSE NoDoc

\* Identifiers a client sends for a user: those of the stored users, a
\* well-formed one no user has, and a malformed one.
UserIdInputs == Callers \cup {nextOid, BadId}

----------------------------------------------------------------------------
(* POST /register *)

\* The lookup by email alone.
ExistingUser_EmailOnly(email, voterID) == {u \in users : u.email = email}

\* User.findOne({ $or: [{ email }, { voterID }] }): the documents it can
\* return
ExistingUser(email, voterID) ==
    {u \in users : u.email = email \/ u.voterID = voterID}

\* The verification flag left to the schema default.
RegisteredVerified_Default == FALSE

\* `isVerified:true` in `new User({ ... })`
RegisteredVerified == TRUE

\* `await User.findOne(...)`, the existing-user check and `new User(...)`
RegisterFindOne(p, body) ==
    /\ Free(p)
    /\ LET r == [IdleReq EXCEPT !.op = "register", !.email = body.email,
                                !.voterID = body.voterID,
                                !.password = body.password, !.age = body.age]
           user == [_id |-> nextOid, fullName |-> body.fullName,
                    email |-> body.email, voterID |-> body.voterID,
                    password |-> body.password, age |-> body.age,
                    role |-> "voter", isVerified |-> RegisteredVerified,
                    isActive |-> TRUE]
       IN
       IF ExistingUser(body.email, body.voterID) # {}
       THEN /\ Respond(p, r, Msg(400, "User with this email or voter ID already exists"))
            /\ UNCHANGED nextOid
       ELSE /\ nextOid <= MaxOid
            /\ nextOid' = nextOid + 1
            /\ Goto(p, [r EXCEPT !.account = user], "register_save")
    /\ UNCHANGED <<users, now, elections, votes>>

\* `await user.save()`: validation, password hashing, insert; a rejected
\* save throws and the catch block answers 500.
RegisterSave(p) ==
    /\ req[p].pc = "register_save"
    /\ LET user == req[p].account
       IN
       IF UserSchemaErrors(user) # {} \/ UserDuplicateKey(user)
       THEN /\ Respond(p, req[p], Msg(500, "Server error during registration"))
            /\ UNCHANGED users
       ELSE /\ users' = users \cup {[user EXCEPT !.password = Hash(user.password)]}
            /\ Respond(p, req[p],
                       Msg(201, "Registration successful! Please check your email to verify your account."))
    /\ UNCHANGED <<now, elections, votes, nextOid>>

----------------------------------------------------------------------------
(* POST /login *)

\* The answer to a wrong password naming the part that failed.
LoginMismatch_Revealing == Msg(400, "Incorrect password")

\* The answers of the two credential checks
LoginMismatch == Msg(400, "Invalid credentials")

LoginNoUser == Msg(400, "Invalid credentials")

\* Every account taken for active.
UserIsActive_Always(user) == TRUE

\* `!user.isActive` is false
UserIsActive(user) == user.isActive

\* `await User.findOne({ voterID })`, the no-user and the inactive check;
\* then comparePassword is called
LoginFindOne(p, voterID, password) ==
    /\ Free(p)
    /\ LET r == [IdleReq EXCEPT !.op = "login", !.voterID = voterID,
                                !.password = password]
           found == {u \in users : u.voterID = voterID}
       IN
       IF found = {} THEN Respond(p, r, LoginNoUser)
       ELSE \E user \in found :
               IF ~UserIsActive(user)
               THEN Respond(p, [r EXCEPT !.account = user],
                            Msg(403, "Account has been deleted"))
               ELSE Goto(p, [r EXCEPT !.account = user], "login_compare")
    /\ UNCHANGED <<users, now, elections, votes, nextOid>>

\* After comparePassword resumes: the match and the verification check, the
\* token and the response
LoginCompare(p, env) ==
    /\ req[p].pc = "login_compare"
    /\ LET r == [req[p] EXCEPT !.env = env]
           user == r.account
       IN
       IF ~ComparePassword(user, r.password)
       THEN Respond(p, r, LoginMismatch)
       ELSE IF ~user.isVerified /\ env = "production"
       THEN Respond(p, r, Msg(401, "Please verify your email before logging in"))
       ELSE Respond(p, r,
                    [status |-> 200,
                     token |-> [id |-> user._id, role |-> user.role,
                                voterID |-> user.voterID],
                     user |-> [id |-> user._id, fullName |-> user.fullName,
                               email |-> user.email, voterID |-> user.voterID,
                               role |-> user.role, isVerified |-> user.isVerified,
                               isActive |-> user.isActive]])
    /\ UNCHANGED <<users, now, elections, votes, nextOid>>

----------------------------------------------------------------------------
(* PUT /profile *)

\* User.findOne({ $and: [{ _id: { $ne: id } }, { $or: [{ email }, { voterID }] }] })
OtherUser(id, email, voterID) ==
    {u \in users : u._id # id /\ (u.email = email \/ u.voterID = voterID)}

\* .select('-password')
WithoutPassword(user) ==
    [f \in DOMAIN user \ {"password"} |-> user[f]]

\* The age check, then `await User.findOne(...)` and the existing-user check
ProfileFindOne(p, caller, body) ==
    /\ Free(p)
    /\ LET r == [IdleReq EXCEPT !.op = "profile", !.user = caller,
                                !.email = body.email, !.voterID = body.voterID,
                                !.age = body.age,
                                !.updateData = [fullName |-> body.fullName,
                                                email |-> body.email,
                                                age |-> body.age,
                                                voterID |-> body.voterID]]
       IN
       IF body.age # 0 /\ (body.age < 18 \/ body.age > 120)
       THEN Respond(p, r, Msg(400, "Age must be between 18 and 120"))
       ELSE IF OtherUser(caller, body.email, body.voterID) # {}
       THEN Respond(p, r, Msg(400, "Email or Voter ID is already in use by another user"))
       ELSE Goto(p, r, "profile_write")
    /\ UNCHANGED <<users, now, elections, votes, nextOid>>

\* `await User.findByIdAndUpdate(id, { $set }, { new: true, runValidators:
\* true })`: a validation error is answered 400, a rejected write 500, a
\* missing user 404.
ProfileWrite(p) ==
    /\ req[p].pc = "profile_write"
    /\ LET user == FindUser(req[p].user)
           data == req[p].updateData
           updated == [user EXCEPT !.fullName = data.fullName,
                                   !.email = data.email,
                                   !.age = data.age,
                                   !.voterID = data.voterID]
       IN
       IF UserSchemaErrors([age |-> data.age]) # {}
       THEN /\ Respond(p, req[p], Msg(400, "Validation failed"))
            /\ UNCHANGED users
       ELSE IF user = NoDoc
       THEN /\ Respond(p, req[p], Msg(404, "User not found"))
            /\ UNCHANGED users
       ELSE IF UserDuplicateKey(updated)
       THEN /\ Respond(p, req[p], Msg(500, "Server error during profile update"))
            /\ UNCHANGED users
       ELSE /\ users' = (users \ {user}) \cup {updated}
            /\ Respond(p, req[p], [status |-> 200, user |-> WithoutPassword(updated)])
    /\ UNCHANGED <<now, elections, votes, nextOid>>

----------------------------------------------------------------------------
(* POST /deactivate and POST /voters/:id/deactivate *)

\* The collection after the user `id` is removed from it.
Deactivated_Removing(id) == {u \in users : u._id # id}

\* The collection after { isActive: false } is written to the user `id`.
Deactivated(id) ==
    {IF u._id = id THEN [u EXCEPT !.isActive = FALSE] ELSE u : u \in users}

\* `await User.findByIdAndUpdate(userId, { isActive: false }, { new: true })`
\* and the response
DeactivateSelf(p, caller) ==
    /\ Free(p)
    /\ LET r == [IdleReq EXCEPT !.op = "deactivate", !.user = caller,
                                !.account = FindUser(caller)]
       IN
       IF FindUser(caller) = NoDoc
       THEN /\ Respond(p, r, [status |-> 404, success |-> FALSE,
                              message |-> "User not found"])
            /\ UNCHANGED users
       ELSE /\ users' = Deactivated(caller)
            /\ Respond(p, r, [status |-> 200, success |-> TRUE,
                              message |-> "Account has been Deleted successfully"])
    /\ UNCHANGED <<now, elections, votes, nextOid>>

\* `await User.findById(voterId)` (a malformed id throws, answered 500), the
\* not-found and the admin check, `voter.isActive = false`; then save
DeactivateVoterFind(p, caller, voterId) ==
    /\ Free(p)
    /\ IsAdmin(caller)
    /\ LET r == [IdleReq EXCEPT !.op = "deactivateVoter", !.user = caller,
                                !.account = FindUser(voterId)]
           voter == FindUser(voterId)
       IN
       IF ~IsValidObjectId(voterId)
       THEN Respond(p, r, Msg(500, "Server error during voter delete"))
       ELSE IF voter = NoDoc
       THEN Respond(p, r, Msg(404, "Voter not found"))
       ELSE IF voter.role = "admin"
       THEN Respond(p, r, Msg(403, "Cannot delete admin accounts"))
       ELSE Goto(p, r, "deactivate_save")
    /\ UNCHANGED <<users, now, elections, votes, nextOid>>

\* `await voter.save()`: only the modified path isActive is written, and
\* only if the assignment changed it
DeactivateVoterSave(p) ==
    /\ req[p].pc = "deactivate_save"
    /\ users' = IF req[p].account.isActive
                THEN Deactivated(req[p].account._id) ELSE users
    /\ Respond(p, req[p], Msg(200, "Voter deleted successfully"))
    /\ UNCHANGED <<now, elections, votes, nextOid>>

----------------------------------------------------------------------------
(* The system *)

\* The response of a finished request is delivered and the slot is free
\* again.  Delivery changes nothing else and commutes with every other
\* step, so it is taken before any other step.
Finish(p) ==
    /\ req[p].pc = "done"
    /\ req' = [req EXCEPT ![p] = IdleReq]
    /\ UNCHANGED <<users, now, elections, votes, nextOid>>

\* The service used by one client at a time: the election routes that read
\* or write elections and results, one election in the store at a time.
Step ==
    \/ Tick
    \/ \E p \in SeqReqs, user \in Admins, body \in CreateBodies :
          elections = {} /\ CreateElection(p, user, body)
    \/ \E p \in SeqReqs, user \in Users, e \in ElectionIdInputs, c \in CandidateIdInputs :
          VoteFindElection(p, user, e, c)
    \/ \E p \in Reqs : VoteCheck(p)
    \/ \E p \in Reqs : VoteFindOne(p)
    \/ \E p \in Reqs : VoteSave(p)
    \/ \E p \in SeqReqs, user \in Admins, e \in ElectionIdInputs :
          DeleteFindElection(p, user, e)
    \/ \E p \in Reqs : DeleteCheck(p)
    \/ \E p \in Reqs : DeleteVotes(p)
    \/ \E p \in Reqs : DeleteElection(p)
    \/ \E p \in SeqReqs, user \in Admins, e \in ElectionIdInputs :
          UpdateFindElection(p, user, e)
    \/ \E p \in Reqs, body \in UpdateBodies, pattern \in IdPatterns :
          UpdateCheck(p, body, pattern)
    \/ \E p \in Reqs : UpdateWrite(p)
    \/ \E p \in SeqReqs, e \in ElectionIdInputs : ResultsFindElection(p, e)
    \/ \E p \in Reqs : ResultsCheck(p)
    \/ \E p \in Reqs : ResultsTally(p)
    \/ \E p \in SeqReqs, e \in ElectionIdInputs : GetFindElection(p, e)
    \/ \E p \in Reqs : GetStatus(p)
    \/ \E p \in SeqReqs : ListFind(p)
    \/ \E p \in Reqs : ListStatus(p)

Next ==
    \/ \E p \in Reqs : Finish(p)
    \/ NoneDone /\ Step

Spec == Init /\ [][Next]_vars

\* Concurrent cast-vote requests: both slots vote on one election while the
\* clock runs.
RaceStep ==
    \/ Tick
    \/ \E p \in SeqReqs, user \in Admins,
          body \in GoodBodies({"t1"}, {<<GoodCand, GoodCand>>}) :
          elections = {} /\ CreateElection(p, user, body)
    \/ \E p \in Reqs, user \in Users, e \in ElectionIdInputs, c \in CandidateIdInputs :
          VoteFindElection(p, user, e, c)
    \/ \E p \in Reqs : VoteCheck(p)
    \/ \E p \in Reqs : VoteFindOne(p)
    \/ \E p \in Reqs : VoteSave(p)

RaceNext ==
    \/ \E p \in Reqs : Finish(p)
    \/ NoneDone /\ RaceStep

RaceSpec == Init /\ [][RaceNext]_vars

\* Several elections side by side: created, read and voted in.
ManyStep ==
    \/ Tick
    \/ \E p \in SeqReqs, user \in Admins,
          body \in GoodBodies({"t1"}, {<<GoodCand, GoodCand>>}) :
          CreateElection(p, user, body)
    \/ \E p \in SeqReqs, user \in Users, e \in ElectionIdInputs, c \in CandidateIdInputs :
          VoteFindElection(p, user, e, c)
    \/ \E p \in Reqs : VoteCheck(p)
    \/ \E p \in Reqs : VoteFindOne(p)
    \/ \E p \in Reqs : VoteSave(p)
    \/ \E p \in SeqReqs, e \in ElectionIdInputs : GetFindElection(p, e)
    \/ \E p \in Reqs : GetStatus(p)
    \/ \E p \in SeqReqs : ListFind(p)
    \/ \E p \in Reqs : ListStatus(p)

ManyNext ==
    \/ \E p \in Reqs : Finish(p)
    \/ NoneDone /\ ManyStep

ManySpec == Init /\ [][ManyNext]_vars
\* An election voted in by several voters and tallied after its end.
TallyStep ==
    \/ Tick
    \/ \E p \in SeqReqs, user \in Admins,
          body \in GoodBodies({"t1"}, {<<GoodCand, GoodCand>>,
                                       <<GoodCand, GoodCand, GoodCand>>}) :
          elections = {} /\ CreateElection(p, user, body)
    \/ \E p \in SeqReqs, user \in Voters, e \in ElectionIdInputs, c \in CandidateIdInputs :
          VoteFindElection(p, user, e, c)
    \/ \E p \in Reqs : VoteCheck(p)
    \/ \E p \in Reqs : VoteFindOne(p)
    \/ \E p \in Reqs : VoteSave(p)
    \/ \E p \in SeqReqs, e \in ElectionIdInputs : ResultsFindElection(p, e)
    \/ \E p \in Reqs : ResultsCheck(p)
    \/ \E p \in Reqs : ResultsTally(p)

TallyNext ==
    \/ \E p \in Reqs : Finish(p)
    \/ NoneDone /\ TallyStep

TallySpec == Init /\ [][TallyNext]_vars
\* Results computed twice over: both slots ask for results, and a response
\* stays in its slot while the other request is computed.
TwiceStep ==
    \/ Tick
    \/ \E p \in SeqReqs, user \in Admins,
          body \in GoodBodies({"t1"}, {<<GoodCand, GoodCand>>}) :
          NoneDone /\ elections = {} /\ CreateElection(p, user, body)
    \/ \E p \in SeqReqs, user \in Users, e \in ElectionIdInputs, c \in CandidateIdInputs :
          NoneDone /\ VoteFindElection(p, user, e, c)
    \/ \E p \in Reqs : NoneDone /\ VoteCheck(p)
    \/ \E p \in Reqs : NoneDone /\ VoteFindOne(p)
    \/ \E p \in Reqs : NoneDone /\ VoteSave(p)
    \/ \E p \in Reqs, e \in ElectionIdInputs : ResultsFindElection(p, e)
    \/ \E p \in Reqs : ResultsCheck(p)
    \/ \E p \in Reqs : ResultsTally(p)

TwiceNext ==
    \/ \E p \in Reqs : Finish(p)
    \/ TwiceStep

TwiceSpec == Init /\ [][TwiceNext]_vars
\* Accounts created and edited by clients whose requests interleave (all of
\* full age).
AccountStep ==
    \/ \E p \in Reqs, body \in RegisterBodies :
          body.age >= 18 /\ RegisterFindOne(p, body)
    \/ \E p \in Reqs : RegisterSave(p)
    \/ \E p \in Reqs, caller \in Callers, body \in ProfileBodies :
          body.age >= 18 /\ ProfileFindOne(p, caller, body)
    \/ \E p \in Reqs : ProfileWrite(p)

AccountNext ==
    \/ \E p \in Reqs : Finish(p)
    \/ NoneDone /\ AccountStep

AccountSpec == Init /\ [][AccountNext]_vars

\* Accounts registered, logged into and deactivated, one request at a time.
LoginStep ==
    \/ \E p \in SeqReqs, body \in RegisterBodies : RegisterFindOne(p, body)
    \/ \E p \in Reqs : RegisterSave(p)
    \/ \E p \in SeqReqs, voterID \in VoterIDs \cup {"ADMIN001"},
          password \in Passwords : LoginFindOne(p, voterID, password)
    \/ \E p \in Reqs, env \in Envs : LoginCompare(p, env)
    \/ \E p \in SeqReqs, caller \in Callers, body \in ProfileBodies :
          ProfileFindOne(p, caller, body)
    \/ \E p \in Reqs : ProfileWrite(p)
    \/ \E p \in SeqReqs, caller \in Callers : DeactivateSelf(p, caller)
    \/ \E p \in SeqReqs, caller \in Callers, voterId \in UserIdInputs :
          DeactivateVoterFind(p, caller, voterId)
    \/ \E p \in Reqs : DeactivateVoterSave(p)

LoginNext ==
    \/ \E p \in Reqs : Finish(p)
    \/ NoneDone /\ LoginStep

LoginSpec == Init /\ [][LoginNext]_vars
\* A voter casts votes while an administrator deletes the election.
CascadeStep ==
    \/ Tick
    \/ \E p \in SeqReqs, user \in Admins,
          body \in GoodBodies({"t1"}, {<<GoodCand, GoodCand>>}) :
          elections = {} /\ CreateElection(p, user, body)
    \/ \E p \in SeqReqs, user \in Users, e \in ElectionIdInputs, c \in CandidateIdInputs :
          VoteFindElection(p, user, e, c)
    \/ \E p \in Reqs : VoteCheck(p)
    \/ \E p \in Reqs : VoteFindOne(p)
    \/ \E p \in Reqs : VoteSave(p)
    \/ \E p \in AdminReqs, user \in Admins, e \in ElectionIdInputs :
          DeleteFindElection(p, user, e)
    \/ \E p \in Reqs : DeleteCheck(p)
    \/ \E p \in Reqs : DeleteVotes(p)
    \/ \E p \in Reqs : DeleteElection(p)

CascadeNext ==
    \/ \E p \in Reqs : Finish(p)
    \/ NoneDone /\ CascadeStep

CascadeSpec == Init /\ [][CascadeNext]_vars
\* One voter account registered, and accounts deactivated, while votes are
\* cast and stored (at one instant).
HistoryStep ==
    \/ \E p \in SeqReqs, user \in Admins,
          body \in GoodBodies({"t1"}, {<<GoodCand, GoodCand>>}) :
          elections = {} /\ CreateElection(p, user, body)
    \/ \E p \in SeqReqs, user \in Users, e \in ElectionIdInputs, c \in CandidateIdInputs :
          VoteFindElection(p, user, e, c)
    \/ \E p \in Reqs : VoteCheck(p)
    \/ \E p \in Reqs : VoteFindOne(p)
    \/ \E p \in Reqs : VoteSave(p)
    \/ \E p \in AdminReqs, body \in RegisterBodies :
          /\ body.age >= 18 /\ body.email = "a@example.com" /\ body.voterID = "VOT1"
          /\ RegisterFindOne(p, body)
    \/ \E p \in Reqs : RegisterSave(p)
    \/ \E p \in AdminReqs, caller \in Callers : DeactivateSelf(p, caller)
    \/ \E p \in AdminReqs, caller \in Callers, voterId \in UserIdInputs :
          DeactivateVoterFind(p, caller, voterId)
    \/ \E p \in Reqs : DeactivateVoterSave(p)

HistoryNext ==
    \/ \E p \in Reqs : Finish(p)
    \/ NoneDone /\ HistoryStep

HistorySpec == Init /\ [][HistoryNext]_vars
\* An administrator renames an election and replaces its candidate list
\* while votes are cast, tallied and looked up.
ReplaceStep ==
    \/ Tick
    \/ \E p \in SeqReqs, user \in Admins :
          elections = {} /\ CreateElection(p, user, BaseBody)
    \/ \E p \in SeqReqs, user \in Users, e \in ElectionIdInputs, c \in CandidateIdInputs :
          VoteFindElection(p, user, e, c)
    \/ \E p \in Reqs : VoteCheck(p)
    \/ \E p \in Reqs : VoteFindOne(p)
    \/ \E p \in Reqs : VoteSave(p)
    \/ \E p \in SeqReqs, user \in Users, e \in ElectionIdInputs :
          VoteStatusFindElection(p, user, e)
    \/ \E p \in Reqs : VoteStatusFindOne(p)
    \/ \E p \in SeqReqs, e \in ElectionIdInputs : ResultsFindElection(p, e)
    \/ \E p \in Reqs : ResultsCheck(p)
    \/ \E p \in Reqs : ResultsTally(p)
    \/ \E p \in AdminReqs, user \in Admins, e \in ElectionIdInputs :
          UpdateFindElection(p, user, e)
    \/ \E p \in Reqs, pattern \in IdPatterns :
          UpdateCheck(p, [BaseBody EXCEPT !.title = "t2"], pattern)
    \/ \E p \in Reqs : UpdateWrite(p)

ReplaceNext ==
    \/ \E p \in Reqs : Finish(p)
    \/ NoneDone /\ ReplaceStep

ReplaceSpec == Init /\ [][ReplaceNext]_vars
\* Results asked for by a second client while votes are cast; a response
\* stays in its slot for as long as its client keeps it.
LateStep ==
    \/ Tick
    \/ \E p \in SeqReqs, user \in Admins,
          body \in GoodBodies({"t1"}, {<<GoodCand, GoodCand>>}) :
          elections = {} /\ CreateElection(p, user, body)
    \/ \E p \in SeqReqs, user \in Users, e \in ElectionIdInputs, c \in CandidateIdInputs :
          VoteFindElection(p, user, e, c)
    \/ \E p \in Reqs : VoteCheck(p)
    \/ \E p \in Reqs : VoteFindOne(p)
    \/ \E p \in Reqs : VoteSave(p)
    \/ \E p \in Reqs \ SeqReqs, e \in ElectionIdInputs : ResultsFindElection(p, e)
    \/ \E p \in Reqs : ResultsCheck(p)
    \/ \E p \in Reqs : ResultsTally(p)

LateNext ==
    \/ \E p \in Reqs : Finish(p)
    \/ LateStep

LateSpec == Init /\ [][LateNext]_vars
----------------------------------------------------------------------------
(* Properties *)

Done(p, op) == req[p].pc = "done" /\ req[p].op = op

\* The step is one of request p.
StepOf(p) == req'[p] # req[p]

SameBallot(v, w) == v.election = w.election /\ v.voter = w.voter

AlreadyVoted == Msg(400, "You have already voted in this election")

\* C1: in every reachable state the Vote collection holds at most one
\* document for every pair (election, voter), whatever cast-vote requests
\* have run and however they interleaved.
C1_OneVotePerElectionAndVoter ==
    \A v, w \in BagToSet(votes) :
        /\ CopiesIn(v, votes) = 1
        /\ SameBallot(v, w) => v = w

\* C1 witness: a voter has two requests for one election in flight, both
\* past the existing-vote check; one has inserted its vote and the other is
\* about to insert.
C1_Witness ==
    \E p, q \in Reqs :
        /\ p # q
        /\ Done(p, "vote") /\ req[p].res.status = 201
        /\ req[q].pc = "vote_save"
        /\ req[q].electionId = req[p].electionId
        /\ req[q].user = req[p].user

\* C2: of two cast-vote requests of one voter for one election that both
\* passed the existing-vote check before either inserted, the one that
\* inserts first is answered 201 and its vote is stored, and the one that
\* inserts after a vote for the pair is stored is answered with the
\* "already voted" failure of the pre-check and stores nothing.
C2_RaceEndsInAlreadyVoted ==
    [][\A p \in Reqs :
          (req[p].pc = "vote_save" /\ req'[p].pc = "done") =>
              IF VoteExists(req[p].electionId, req[p].user)
              THEN req'[p].res = AlreadyVoted /\ votes' = votes
              ELSE req'[p].res.status = 201 /\ votes' # votes]_vars
\* The identifiers of the candidates embedded in an election.
CandidateIds(election) ==
    {election.candidates[i]._id : i \in DOMAIN election.candidates}

\* Request p found its election and read the clock.
Checked(p) == req[p].election # NoDoc /\ req[p].now # NoTime

\* C3: cast-vote stores a vote only if the request found the election, the
\* clock it read lies within [startDate, endDate], the candidate id is one
\* of the election's candidates and the voter had no vote for the election
\* (the stored vote is the only one of the pair); a cast-vote request that
\* fails leaves the Vote collection unchanged.
C3_VoteOnlyIfEligible ==
    /\ [](\A p \in Reqs :
            (Done(p, "vote") /\ req[p].res.status = 201) =>
                /\ Checked(p)
                /\ req[p].election._id = req[p].electionId
                /\ req[p].election.startDate <= req[p].now
                /\ req[p].now <= req[p].election.endDate
                /\ req[p].candidateId \in CandidateIds(req[p].election)
                /\ VotesOf(req[p].electionId) \cap
                       {v \in BagToSet(votes) : v.voter = req[p].user}
                   = {[election |-> req[p].electionId,
                       candidate |-> req[p].candidateId,
                       voter |-> req[p].user]})
    /\ [][\A p \in Reqs :
            (StepOf(p) /\ req'[p].op = "vote" /\ votes' # votes) =>
                req'[p].pc = "done" /\ req'[p].res.status = 201]_vars
    /\ [][\A p \in Reqs :
            (StepOf(p) /\ req'[p].op = "vote" /\ req'[p].pc = "done"
                /\ req'[p].res.status # 201) =>
                req'[p].res.status \in {400, 404, 500} /\ votes' = votes]_vars

\* C3 witness: a vote was stored for an election whose stored status field
\* does not say "active".
C3_Witness ==
    \E p \in Reqs :
        /\ Done(p, "vote") /\ req[p].res.status = 201
        /\ req[p].election.status # "active"

\* C4: a cast-vote request on an election that is active when checked, with
\* a well-formed candidate id that is not one of that election's
\* candidates, is answered 400 "Invalid candidate for this election" and no
\* vote for that candidate is stored for the election, also when the id is
\* that of a candidate of another election.
C4_ForeignCandidateRejected ==
    \A p \in Reqs :
        (/\ Done(p, "vote") /\ Checked(p)
         /\ req[p].election.startDate <= req[p].now
         /\ req[p].now <= req[p].election.endDate
         /\ req[p].candidateId \notin CandidateIds(req[p].election)) =>
            /\ req[p].res = Msg(400, "Invalid candidate for this election")
            /\ ~\E v \in BagToSet(votes) :
                   /\ v.election = req[p].electionId
                   /\ v.candidate = req[p].candidateId

\* C4 witness: the rejected id is the id of a candidate of another stored
\* election.
C4_Witness ==
    \E p \in Reqs :
        /\ Done(p, "vote")
        /\ req[p].res = Msg(400, "Invalid candidate for this election")
        /\ \E e \in elections :
              /\ e._id # req[p].electionId
              /\ req[p].candidateId \in CandidateIds(e)

\* The status the specification derives from the clock and the dates.
StatusIs(status, t, startDate, endDate) ==
    /\ t < startDate => status = "upcoming"
    /\ t > endDate => status = "completed"
    /\ (t >= startDate /\ t <= endDate) => status = "active"

\* C5: the status of every election returned by Get election and by List
\* elections is "upcoming" before startDate, "completed" after endDate and
\* "active" otherwise, by the clock the handler read, whatever status the
\* election has stored.
C5_ReturnedStatusIsTimeDerived ==
    \A p \in Reqs :
        /\ (Done(p, "get") /\ req[p].res.status = 200) =>
              StatusIs(req[p].res.election.status, req[p].now,
                       req[p].election.startDate, req[p].election.endDate)
        /\ Done(p, "list") =>
              /\ Len(req[p].res.elections) = Len(req[p].list)
              /\ \A i \in DOMAIN req[p].list :
                    StatusIs(req[p].res.elections[i].status, req[p].now,
                             req[p].list[i].startDate, req[p].list[i].endDate)

\* C5 witness: List returned elections with different stored statuses, one
\* of them with a status other than the stored one.
C5_Witness ==
    \E p \in Reqs :
        /\ Done(p, "list")
        /\ \E i \in DOMAIN req[p].list :
              req[p].res.elections[i].status # req[p].list[i].status
        /\ Cardinality({req[p].list[i].status : i \in DOMAIN req[p].list}) > 1
StateConflict(res, verb) ==
    /\ res.status = 400
    /\ res.message \in {"Cannot " \o verb \o " an active election",
                        "Cannot " \o verb \o " a completed election"}

\* C6: a delete request that reads the clock at or after the election's
\* startDate (the election is active or completed) is answered with the
\* state-conflict error 400, and no step of the request changes the
\* election or the votes: both are as they were.
C6_DeleteRefusedOnceStarted ==
    /\ [](\A p \in Reqs :
            (Done(p, "delete") /\ Checked(p)
                /\ req[p].now >= req[p].election.startDate) =>
                /\ StateConflict(req[p].res, "delete")
                /\ FindById(req[p].electionId) = req[p].election)
    /\ [][\A p \in Reqs :
            (StepOf(p) /\ req'[p].op = "delete"
                /\ req'[p].pc \in {"delete_check", "done"}
                /\ (req'[p].election # NoDoc =>
                        (req'[p].now = NoTime
                         \/ req'[p].now >= req'[p].election.startDate))) =>
                elections' = elections /\ votes' = votes]_vars

\* C6 witness: delete was refused on an election that has votes.
C6_Witness ==
    \E p \in Reqs :
        /\ Done(p, "delete") /\ StateConflict(req[p].res, "delete")
        /\ VotesOf(req[p].electionId) # {}

\* C7: an update request that reads the clock at or after the election's
\* startDate is answered with the state-conflict error 400 whatever its
\* body, and the stored election is as it was; an update is applied only
\* by a request that read the clock before startDate.
C7_UpdateOnlyWhileUpcoming ==
    \A p \in Reqs :
        /\ (Done(p, "update") /\ Checked(p)
                /\ req[p].now >= req[p].election.startDate) =>
              /\ StateConflict(req[p].res, "update")
              /\ FindById(req[p].electionId) = req[p].election
        /\ (Done(p, "update") /\ req[p].res.status = 200) =>
              /\ Checked(p)
              /\ req[p].now < req[p].election.startDate
        /\ (Done(p, "update") /\ req[p].res.status \notin {200, 500}) =>
              (req[p].election # NoDoc =>
                  FindById(req[p].electionId) = req[p].election)

\* C7 witness: an update was refused at the very instant the election
\* started.
C7_Witness ==
    \E p \in Reqs :
        /\ Done(p, "update") /\ StateConflict(req[p].res, "update")
        /\ req[p].now = req[p].election.startDate

\* C8: a results request on an existing election returns a tally only if
\* the clock it read is after endDate; otherwise it is answered 403 with
\* the election's endDate and nothing else: no counts, totals or winners.
C8_ResultsOnlyAfterEnd ==
    \A p \in Reqs :
        (Done(p, "results") /\ Checked(p)) =>
            IF req[p].now > req[p].election.endDate
            THEN /\ req[p].res.status = 200
                 /\ {"totalVotes", "results", "winners", "isTie"}
                        \subseteq DOMAIN req[p].res
            ELSE /\ req[p].res.status = 403
                 /\ DOMAIN req[p].res = {"status", "message", "endDate"}
                 /\ req[p].res.endDate = req[p].election.endDate

\* C8 witness: results were refused at the instant of endDate although
\* votes are stored for the election.
C8_Witness ==
    \E p \in Reqs :
        /\ Done(p, "results") /\ req[p].res.status = 403
        /\ req[p].now = req[p].election.endDate
        /\ VotesOf(req[p].electionId) # {}

\* The rows of a results response that carry the maximum vote count.
TopRows(res) ==
    {i \in DOMAIN res.results :
        \A j \in DOMAIN res.results : res.results[j].votes <= res.results[i].votes}

\* C9: in every results response the winners are exactly the candidates
\* whose row has the maximum vote count of all rows, each once, and isTie
\* is true exactly if there is more than one of them.
C9_WinnersAreTheMaxima ==
    \A p \in Reqs :
        (Done(p, "results") /\ req[p].res.status = 200) =>
            LET res == req[p].res
            IN  /\ \A i \in DOMAIN res.results :
                      (i \in TopRows(res)) <=>
                          (res.results[i].candidate \in Range(res.winners))
                /\ Len(res.winners) = Cardinality(TopRows(res))
                /\ res.isTie <=> (Cardinality(TopRows(res)) > 1)

\* C9 witness: a tie between some but not all candidates.
C9_Witness ==
    \E p \in Reqs :
        /\ Done(p, "results") /\ req[p].res.status = 200
        /\ req[p].res.isTie
        /\ Len(req[p].res.winners) < Len(req[p].res.results)

\* C10: a results response with totalVotes = 0 lists every candidate of the
\* election as a winner and has isTie = true.
C10_NoVotesAllTied ==
    \A p \in Reqs :
        (Done(p, "results") /\ req[p].res.status = 200
            /\ req[p].res.totalVotes = 0) =>
            /\ Range(req[p].res.winners) =
                   {RowCandidate(c) : c \in Range(req[p].election.candidates)}
            /\ Len(req[p].res.winners) = Len(req[p].election.candidates)
            /\ req[p].res.isTie = TRUE

\* C10 witness: results of a completed election in which nobody voted.
C10_Witness ==
    \E p \in Reqs :
        /\ Done(p, "results") /\ req[p].res.status = 200
        /\ req[p].res.totalVotes = 0
        /\ VotesOf(req[p].electionId) = {}

\* The positions of a candidate list, or the rows of a response, that hold
\* candidate c.
PositionsOf(c, candidates) ==
    {i \in DOMAIN candidates : RowCandidate(candidates[i]) = c}

RowsOf(c, results) == {i \in DOMAIN results : results[i].candidate = c}

\* C11: a results response holds exactly one row for every candidate of the
\* election's candidate list (as many rows as candidates, every candidate
\* in as many rows as it has places in the list), also for candidates
\* without votes, and the vote count of a row is the number of stored votes
\* of the election whose candidate reference is that candidate's id.
C11_OneRowPerCandidate ==
    \A p \in Reqs :
        (Done(p, "results") /\ req[p].res.status = 200) =>
            LET res == req[p].res
                election == FindById(req[p].electionId)
            IN  /\ election = req[p].election
                /\ Len(res.results) = Len(election.candidates)
                /\ \A i \in DOMAIN election.candidates :
                      LET c == RowCandidate(election.candidates[i])
                      IN  Cardinality(RowsOf(c, res.results)) =
                             Cardinality(PositionsOf(c, election.candidates))
                /\ \A i \in DOMAIN res.results :
                      res.results[i].votes =
                          CountDocs({v \in BagToSet(votes) :
                                        /\ v.election = req[p].electionId
                                        /\ v.candidate = res.results[i].candidate.id})

\* C11 witness: a results response with a row for a candidate nobody voted
\* for next to a row of a candidate with votes.
C11_Witness ==
    \E p \in Reqs :
        /\ Done(p, "results") /\ req[p].res.status = 200
        /\ \E i, j \in DOMAIN req[p].res.results :
              /\ req[p].res.results[i].votes = 0
              /\ req[p].res.results[j].votes > 0

\* Sum of two naturals given as binary digits, least significant first.
RECURSIVE AddDigits(_, _, _)
AddDigits(x, y, carry) ==
    IF x = <<>> /\ y = <<>> THEN (IF carry = 1 THEN <<1>> ELSE <<>>)
    ELSE LET a == IF x = <<>> THEN 0 ELSE Head(x)
             b == IF y = <<>> THEN 0 ELSE Head(y)
         IN  <<(a + b + carry) % 2>>
                \o AddDigits(IF x = <<>> THEN x ELSE Tail(x),
                             IF y = <<>> THEN y ELSE Tail(y),
                             (a + b + carry) \div 2)

AddBits(x, y) == Reverse(AddDigits(Reverse(x), Reverse(y), 0))

\* x <= y for naturals given as binary digits without leading zeros.
LeqBits(x, y) ==
    \/ Len(x) < Len(y)
    \/ /\ Len(x) = Len(y)
       /\ \/ x = y
          \/ \E i \in DOMAIN x :
                x[i] < y[i] /\ \A j \in 1 .. (i - 1) : x[j] = y[j]

\* The naturals x * b * 2^k and a * 2^k as binary digits, for the least k
\* that makes both whole.
Scaled(x, b) == MulBits(x.bits, b) \o Zeros(IF x.exp > 0 THEN x.exp ELSE 0)

ScaledInt(x, a) == ToBits(a) \o Zeros(IF x.exp < 0 THEN 0 - x.exp ELSE 0)

\* The number x is exactly a / b.
FEquals(x, a, b) ==
    IF x.kind = "finite" THEN a > 0 /\ Scaled(x, b) = ScaledInt(x, a)
    ELSE x.kind = "zero" /\ a = 0

\* The number x is a / b up to two roundings to nearest:
\* |x * b - a| <= a * 2^-(Precision - 2).
FWithinRounding(x, a, b) ==
    IF x.kind = "finite"
    THEN /\ a > 0
         /\ LeqBits(Scaled(x, b) \o Zeros(Precision - 2),
                    AddBits(ScaledInt(x, a) \o Zeros(Precision - 2), ScaledInt(x, a)))
         /\ LeqBits(ScaledInt(x, a) \o Zeros(Precision - 2),
                    AddBits(Scaled(x, b) \o Zeros(Precision - 2), ScaledInt(x, a)))
    ELSE x.kind = "zero" /\ a = 0

\* C12 as claimed: in every result row percentage is 0 when totalVotes is
\* 0 and otherwise percentage * totalVotes = votes * 100, whether the
\* product is taken exactly or as the binary64 product.
C12_PercentageIsExactQuotient ==
    \A p \in Reqs :
        (Done(p, "results") /\ req[p].res.status = 200) =>
            \A i \in DOMAIN req[p].res.results :
                LET row == req[p].res.results[i]
                    total == req[p].res.totalVotes
                IN  IF total = 0 THEN row.percentage = FZero
                    ELSE \/ FEquals(row.percentage, row.votes * 100, total)
                         \/ FMul(row.percentage, total) = FDiv(row.votes * 100, 1)

\* C12 amended: in every result row percentage is 0 when totalVotes is 0
\* and otherwise is votes / totalVotes * 100 up to the rounding of the
\* division and of the multiplication (relative error at most 2^-51); it
\* is never NaN or infinite: no division by zero occurs.
C12_PercentageWithinRounding ==
    \A p \in Reqs :
        (Done(p, "results") /\ req[p].res.status = 200) =>
            \A i \in DOMAIN req[p].res.results :
                LET row == req[p].res.results[i]
                    total == req[p].res.totalVotes
                IN  /\ row.percentage.kind \in {"zero", "finite"}
                    /\ IF total = 0 THEN row.percentage = FZero
                       ELSE FWithinRounding(row.percentage, row.votes * 100, total)

\* C12 witness: a row whose percentage is not the exact quotient (one vote
\* of three).
C12_Witness ==
    \E p \in Reqs :
        /\ Done(p, "results") /\ req[p].res.status = 200
        /\ \E i \in DOMAIN req[p].res.results :
              /\ req[p].res.results[i].votes > 0
              /\ ~FEquals(req[p].res.results[i].percentage,
                          req[p].res.results[i].votes * 100, req[p].res.totalVotes)

\* The per-candidate part of a results response: candidate, count and
\* percentage of every row.
Tallies(res) ==
    {<<res.results[i].candidate, res.results[i].votes, res.results[i].percentage>> :
        i \in DOMAIN res.results}

\* Two sequences hold the same votes.
SameVotes(f, g) ==
    /\ Len(f) = Len(g)
    /\ \A v \in Range(f) \cup Range(g) :
          Cardinality({i \in DOMAIN f : f[i] = v}) =
             Cardinality({i \in DOMAIN g : g[i] = v})

\* C13: two executions of Compute results that read the same election and
\* were handed the same votes by the store, in whatever order and at
\* whatever times, return the same totalVotes, the same count and
\* percentage for every candidate, the same set of winners and the same
\* isTie.
C13_TallyDeterminism ==
    \A p, q \in Reqs :
        (/\ Done(p, "results") /\ req[p].res.status = 200
         /\ Done(q, "results") /\ req[q].res.status = 200
         /\ req[p].election = req[q].election
         /\ SameVotes(req[p].list, req[q].list)) =>
            /\ req[p].res.totalVotes = req[q].res.totalVotes
            /\ Tallies(req[p].res) = Tallies(req[q].res)
            /\ Range(req[p].res.winners) = Range(req[q].res.winners)
            /\ req[p].res.isTie = req[q].res.isTie

\* C13 witness: two results responses for one election computed at
\* different times from the same votes, which the store returned in
\* different orders.
C13_Witness ==
    \E p, q \in Reqs :
        /\ Done(p, "results") /\ req[p].res.status = 200
        /\ Done(q, "results") /\ req[q].res.status = 200
        /\ req[p].election = req[q].election
        /\ SameVotes(req[p].list, req[q].list)
        /\ req[p].list # req[q].list
        /\ req[p].res.lastUpdated # req[q].res.lastUpdated

\* Request p arrives in this step as a request `op`.
Arrives(p, op) == req[p].pc = "idle" /\ req'[p].op = op

NoAccount(p) == req[p].account = NoDoc

WrongPassword(p) ==
    req[p].account # NoDoc /\ ~ComparePassword(req[p].account, req[p].password)

InvalidCredentials == Msg(400, "Invalid credentials")

\* C15 as claimed: a login on a voterID without account and a login with a
\* wrong password on an existing account get the identical answer, 400
\* "Invalid credentials".
C15_LoginNeverRevealsAccount ==
    \A p \in Reqs :
        (Done(p, "login") /\ (NoAccount(p) \/ WrongPassword(p))) =>
            req[p].res = InvalidCredentials

\* C15 amended: a login on a voterID without account and a login with a
\* wrong password on an existing active account get the identical answer,
\* 400 "Invalid credentials" and nothing else; a login on a deactivated
\* account is answered 403 "Account has been deleted" whatever the
\* password.
C15_ActiveAccountNotRevealed ==
    \A p \in Reqs :
        Done(p, "login") =>
            /\ (NoAccount(p) \/ (WrongPassword(p) /\ req[p].account.isActive)) =>
                  req[p].res = InvalidCredentials
            /\ (req[p].account # NoDoc /\ ~req[p].account.isActive) =>
                  req[p].res = Msg(403, "Account has been deleted")

\* C15 witness: a wrong password on an active account, answered like an
\* unknown voterID.
C15_Witness ==
    \E p \in Reqs :
        /\ Done(p, "login") /\ WrongPassword(p) /\ req[p].account.isActive
        /\ req[p].res = InvalidCredentials

\* C16: once a user's active flag is cleared, no step sets it again (the
\* record stays, inactive), and every login attempt that arrives while the
\* account of its voterID is inactive is answered 403 and carries no
\* token.
C16_DeactivationIsFinal ==
    /\ [][\A u \in users :
            ~u.isActive =>
                /\ \E w \in users' : w._id = u._id
                /\ \A w \in users' : w._id = u._id => ~w.isActive]_vars
    /\ [][\A p \in Reqs :
            (/\ Arrives(p, "login")
             /\ \E u \in users : u.voterID = req'[p].voterID /\ ~u.isActive) =>
                /\ req'[p].pc = "done"
                /\ req'[p].res.status = 403
                /\ "token" \notin DOMAIN req'[p].res]_vars

\* C16 witness: a login with the right password refused because the
\* account, a registered voter's, has been deactivated.
C16_Witness ==
    \E p \in Reqs :
        /\ Done(p, "login") /\ req[p].res.status = 403
        /\ req[p].account # NoDoc
        /\ req[p].account.role = "voter"
        /\ ComparePassword(req[p].account, req[p].password)

\* C17: every user with role admin has its active flag set, whatever
\* Deactivate-self and Deactivate-voter requests were made and by whom.
C17_AdminsStayActive ==
    \A u \in users : u.role = "admin" => u.isActive

\* C20: every account that Register stores is active and verified when it
\* is stored and stays verified; no login is answered 401, in production
\* or otherwise, and a login with the right password on an account found
\* active succeeds.
C20_RegisteredAccountsAreVerified ==
    /\ [][\A u \in users' :
            (\A w \in users : w._id # u._id) => u.isActive /\ u.isVerified]_vars
    /\ [](\A u \in users : u.isVerified)
    /\ [](\A p \in Reqs :
            Done(p, "login") =>
                /\ req[p].res.status # 401
                /\ (/\ req[p].account # NoDoc
                    /\ req[p].account.isActive
                    /\ ComparePassword(req[p].account, req[p].password)) =>
                      req[p].res.status = 200 /\ "token" \in DOMAIN req[p].res)

\* C20 witness: a registered voter logs in in production.
C20_Witness ==
    \E p \in Reqs :
        /\ Done(p, "login") /\ req[p].res.status = 200
        /\ req[p].env = "production"
        /\ req[p].account.role = "voter"

\* C18: every stored vote references an election that is in the store,
\* however cast-vote and delete-election requests interleave and the clock
\* advances between their steps.
C18_NoOrphanedVotes ==
    \A v \in BagToSet(votes) : \E e \in elections : e._id = v.election

\* Position of a status in the lifecycle Upcoming -> Active -> Completed.
StatusRank(status) ==
    CASE status = "upcoming" -> 0
      [] status = "active" -> 1
      [] status = "completed" -> 2

\* C19: the status in effect of every stored election never moves backwards
\* in the lifecycle Upcoming -> Active -> Completed, and a step that leaves
\* the clock alone leaves the status in effect of every election that is
\* stored before and after it as it was.
C19_LifecycleIsTimeDriven ==
    [][\A e \in elections : \A f \in elections' :
          f._id = e._id =>
              LET before == CurrentStatus(now, e.startDate, e.endDate)
                  after == CurrentStatus(now', f.startDate, f.endDate)
              IN  /\ StatusRank(after) >= StatusRank(before)
                  /\ now' = now => after = before]_vars

\* C21: no step removes a user record, and a step of Deactivate-self or of
\* Deactivate-voter leaves the votes and every user record as they were,
\* except that the target's active flag may have become false.
C21_DeactivationIsLogical ==
    [][/\ \A u \in users : \E w \in users' : w._id = u._id
       /\ \A p \in Reqs :
             (req'[p] # req[p] /\ req'[p].op \in {"deactivate", "deactivateVoter"}) =>
                 /\ votes' = votes
                 /\ Cardinality(users') = Cardinality(users)
                 /\ \A u \in users :
                        \/ u \in users'
                        \/ /\ u._id = req'[p].account._id
                           /\ [u EXCEPT !.isActive = FALSE] \in users']_vars

\* A voter has just been deactivated by an administrator, an administrator
\* has deactivated their own account, and votes are stored.
C21_Witness ==
    /\ votes # EmptyBag
    /\ \E u \in users : u.role = "admin" /\ ~u.isActive
    /\ \E p \in Reqs :
          /\ Done(p, "deactivateVoter")
          /\ req[p].res.status = 200
          /\ \E u \in users : u._id = req[p].account._id /\ ~u.isActive

\* C22: a delete request removes the election only after it has removed the
\* votes; the count it keeps is the number of votes its deleteMany removed;
\* and when it answers 200 neither the election nor a vote referencing it
\* is stored, and deletedVotesCount is that count.
C22_DeleteCascades ==
    /\ [](\A p \in Reqs :
            (Done(p, "delete") /\ req[p].res.status = 200) =>
                /\ FindById(req[p].electionId) = NoDoc
                /\ VotesOf(req[p].electionId) = {}
                /\ req[p].res.deletedVotesCount = req[p].deletedCount)
    /\ [][\A p \in Reqs :
            (StepOf(p) /\ req'[p].op = "delete") =>
                /\ (req[p].pc = "delete_votes" =>
                       /\ elections' = elections
                       /\ req'[p].deletedCount =
                             BagCardinality(votes) - BagCardinality(votes'))
                /\ (elections' # elections => req[p].pc = "delete_election")]_vars

\* C23: an update answered 200 whose request carried no candidate list
\* replaces the stored election by a document that differs from it in
\* title, description, startDate and endDate at most: the candidate list
\* and every other field are as they were, and no other election changes.
C23_UpdateKeepsOmittedCandidates ==
    [][\A p \in Reqs :
          (StepOf(p) /\ req'[p].pc = "done" /\ req'[p].op = "update"
              /\ req'[p].res.status = 200
              /\ ~req'[p].updateData.hasCandidates) =>
              LET old == FindById(req[p].electionId)
                  new == req'[p].res.election
              IN  /\ elections' = (elections \ {old}) \cup {new}
                  /\ DOMAIN new = DOMAIN old
                  /\ new.candidates = old.candidates
                  /\ \A f \in DOMAIN old \ {"title", "description",
                                             "startDate", "endDate"} :
                         new[f] = old[f]]_vars

\* An update without candidate list has just renamed an election.
C23_Witness ==
    \E p \in Reqs :
        /\ Done(p, "update")
        /\ req[p].res.status = 200
        /\ ~req[p].updateData.hasCandidates
        /\ req[p].res.election.title # req[p].election.title
        /\ Len(req[p].res.election.candidates) >= 2
        /\ req[p].res.election \in elections

\* The fields of a create request that break a validation rule.
Violations(body) ==
    (IF Trim(body.title) = "" THEN {"title"} ELSE {})
    \cup (IF body.description = "" THEN {"description"} ELSE {})
    \cup (IF ParseDate(body.startDate) = NoTime THEN {"startDate"} ELSE {})
    \cup (IF \/ ParseDate(body.endDate) = NoTime
              \/ /\ ParseDate(body.startDate) # NoTime
                 /\ ParseDate(body.endDate) <= ParseDate(body.startDate)
           THEN {"endDate"} ELSE {})
    \cup (IF \/ ~body.hasCandidates
              \/ Len(body.candidates) < 2
              \/ \E i \in DOMAIN body.candidates :
                    \/ Trim(body.candidates[i].name) = ""
                    \/ Trim(body.candidates[i].party) = ""
                    \/ body.candidates[i].bio = ""
           THEN {"candidates"} ELSE {})

\* The fields an error response of Create names, in its list of fields or
\* of schema paths, or else in its message.
Listed(res) ==
    IF "required" \in DOMAIN res THEN res.required
    ELSE IF "errors" \in DOMAIN res
    THEN {IF path \in {"candidates.name", "candidates.party", "candidates.bio"}
          THEN "candidates" ELSE path : path \in res.errors}
    ELSE IF res.message \in {"At least two candidates are required",
                             "Each candidate must have name, party, and bio"}
    THEN {"candidates"}
    ELSE IF res.message = "Invalid date format" THEN {"startDate", "endDate"}
    ELSE IF res.message = "End date must be after start date" THEN {"endDate"}
    ELSE {}

\* C24: a create request that breaks two or more validation rules is
\* answered 400 with every field that breaks a rule listed, and stores no
\* election.
C24_CreateListsAllViolations ==
    [][\A p \in Reqs, user \in Admins, body \in CreateBodies :
          (CreateElection(p, user, body) /\ Cardinality(Violations(body)) >= 2) =>
              /\ req'[p].res.status = 400
              /\ Violations(body) \subseteq Listed(req'[p].res)
              /\ elections' = elections]_vars

\* C25: every stored election ends strictly after it starts and has at
\* least two candidates, each with a non-empty name, party and bio.
C25_StoredElectionsAreValid ==
    \A e \in elections :
        /\ e.endDate > e.startDate
        /\ Len(e.candidates) >= 2
        /\ \A i \in DOMAIN e.candidates :
              /\ e.candidates[i].name # ""
              /\ e.candidates[i].party # ""
              /\ e.candidates[i].bio # ""

\* C28: in every results response the vote counts of the rows sum to
\* totalVotes.
C28_TallyConservation ==
    \A p \in Reqs :
        (Done(p, "results") /\ req[p].res.status = 200) =>
            LET rows == req[p].res.results
                RECURSIVE Sum(_)
                Sum(n) == IF n = 0 THEN 0 ELSE rows[n].votes + Sum(n - 1)
            IN  Sum(Len(rows)) = req[p].res.totalVotes

\* C26: a vote-status response says hasVoted exactly if a vote of the caller
\* in the election is stored, and then carries the id, name and party of
\* the candidate of that vote, taken from the election's candidate list.
C26_VoteStatusIsOwnVote ==
    \A p \in Reqs :
        (Done(p, "voteStatus") /\ req[p].res.status = 200) =>
            /\ req[p].res.hasVoted <=> VoteExists(req[p].electionId, req[p].user)
            /\ req[p].res.hasVoted =>
                  /\ "candidateId" \in DOMAIN req[p].res
                  /\ \E v \in BagToSet(votes) :
                        /\ v.election = req[p].electionId
                        /\ v.voter = req[p].user
                        /\ v.candidate = req[p].res.candidateId
                  /\ \E i \in DOMAIN req[p].election.candidates :
                        LET c == req[p].election.candidates[i]
                        IN  /\ c._id = req[p].res.candidateId
                            /\ c.name = req[p].res.candidateName
                            /\ c.party = req[p].res.candidateParty

\* C27: a stored vote stays in the store as it is, unless the step is the
\* deleteMany of a delete request for the election the vote references; and
\* a cast-vote request that is not answered 201 leaves the votes as they
\* were.
C27_VotesAreImmutable ==
    [][/\ \A v \in BagToSet(votes) :
             \/ /\ v \in BagToSet(votes')
                /\ CopiesIn(v, votes') >= CopiesIn(v, votes)
             \/ \E p \in Reqs :
                   /\ StepOf(p)
                   /\ req[p].op = "delete" /\ req[p].pc = "delete_votes"
                   /\ req[p].electionId = v.election
       /\ \A p \in Reqs :
             (StepOf(p) /\ req'[p].op = "vote" /\ req'[p].pc = "done"
                 /\ req'[p].res.status # 201) => votes' = votes]_vars

\* C27 witness: a voter who has voted asked to vote for another candidate
\* and was refused; the earlier vote is stored.
C27_Witness ==
    \E p \in Reqs :
        /\ Done(p, "vote")
        /\ req[p].res = Msg(400, "You have already voted in this election")
        /\ \E v \in BagToSet(votes) :
              /\ v.election = req[p].electionId
              /\ v.voter = req[p].user
              /\ v.candidate # req[p].candidateId

\* C29: once a results response for an election has been returned, no step
\* changes the stored votes of that election.
C29_ResultsAreFinal ==
    [][\A p \in Reqs :
          (Done(p, "results") /\ req[p].res.status = 200) =>
              \A v \in BagToSet(votes) \cup BagToSet(votes') :
                  v.election = req[p].electionId =>
                      CopiesIn(v, votes') = CopiesIn(v, votes)]_vars

\* C30: for every stored election and the present instant, the status shown
\* by List and Get, the initial status Create would store, the voting
\* window of cast-vote, the window in which Update and Delete are let
\* through and the availability of Results agree, so exactly one of the
\* three is open; and the status Create stores is the status in effect.
C30_PhasesAgree ==
    /\ \A e \in elections :
          LET status == CurrentStatus(now, e.startDate, e.endDate)
              editable == ~NowInWindow(now, e) /\ ~NowPastEnd(now, e)
              voting == IsActiveAt(now, e)
              results == IsCompleted(now, e)
          IN  /\ InitialStatus(now, e.startDate, e.endDate) = status
              /\ editable <=> status = "upcoming"
              /\ voting <=> status = "active"
              /\ results <=> status = "completed"
              /\ \/ editable /\ ~voting /\ ~results
                 \/ ~editable /\ voting /\ ~results
                 \/ ~editable /\ ~voting /\ results
    /\ \A p \in Reqs :
          (Done(p, "create") /\ req[p].res.status = 201) =>
              req[p].res.election.status =
                  CurrentStatus(now, req[p].res.election.startDate,
                                req[p].res.election.endDate)

\* C30 witness: an election has just been created at its start instant and
\* is open for voting.
C30_Witness ==
    \E p \in Reqs :
        /\ Done(p, "create") /\ req[p].res.status = 201
        /\ req[p].res.election.startDate = now
        /\ req[p].res.election.status = "active"
        /\ req[p].res.election \in elections
        /\ IsActiveAt(now, req[p].res.election)

====
